---- MODULE Spec2Model ----
(***************************************************************************)
(* goride: the ride / assignment / trip / payment state machine of         *)
(* app/routes.py and app/services.py, at the granularity of the database   *)
(* statements and of the awaits between them.                               *)
(*                                                                         *)
(* Store semantics the model uses (PostgreSQL, READ COMMITTED):            *)
(*  - a statement executed on a connection outside a begin() block is      *)
(*    committed on its own (the handlers and the tests never commit such    *)
(*    statements explicitly and rely on them being stored);                *)
(*  - the statements of an `async with conn.begin()` block become visible  *)
(*    together when the block is left; a begin() nested in an enclosing    *)
(*    engine.begin() block joins it and becomes visible when the enclosing *)
(*    block is left;                                                       *)
(*  - a plain SELECT takes no row lock and reads the last committed row;   *)
(*    an UPDATE ... WHERE id = x waits for a concurrent writer of the row  *)
(*    and then applies to the row as committed.  The writes of one         *)
(*    transaction are therefore applied in one step, at its commit.        *)
(* Positions are points of one meridian, in kilometres, so that the        *)
(* great-circle distance of two points is the absolute difference.         *)
(***************************************************************************)
EXTENDS Integers, Sequences, FiniteSets, TLC

\* ------------------------------------------------------------------ bounds
MaxReq == 2
MaxAccept == 2
MaxDrivers == 2
MaxEnd == 2
MaxTrips == 1
MaxTime == 2
MaxPay == 2
MaxFind == 1
MaxUpd == 1
MaxMove == 2

Reqs == 1..MaxReq
Accs == 1..MaxAccept
Drivers == 1..MaxDrivers
Ends == 1..MaxEnd
AssignIds == 1..MaxReq
Keys == {"k1"}
NoKey == "no_key"
Pickups == {0, 3}
EndLocs == {2}
Pays == 1..MaxPay
Finds == 1..MaxFind
Upds == 1..MaxUpd
Positions == {6}
Moves == 1..MaxMove
MovePositions == {3, 6}
MaxKms == {2, 5}

\* ------------------------------------------------------- status constants
RIDE_SEARCHING == "searching"
RIDE_ASSIGNED == "assigned"
RIDE_NO_DRIVER == "no_driver"
ASSIGN_OFFERED == "offered"
ASSIGN_ACCEPTED == "accepted"
ASSIGN_EXPIRED == "expired"
TRIP_ONGOING == "ongoing"
TRIP_COMPLETED == "completed"
PAY_PENDING == "pending"
PAY_SUCCESS == "success"
PAY_FAILED == "failed"

\* the match radius the discovery service applies when the caller sends none
max_distance_km == 5
\* the age, in seconds, above which get_driver_location drops a position
max_age_sec == 300
\* the seconds update_driver_location gives the hash of a driver to live
HASH_TTL == 300

NoRow == [absent |-> TRUE]
NoDriver == 0
NoTime == -1
NoLoc == -1

VARIABLES
    rides,          \* table rides: sequence indexed by id of [status, pickup]
    assignments,    \* table assignments: id -> row or NoRow (not committed)
    trips,          \* table trips: sequence indexed by id
    payments,       \* table payments: sequence indexed by id
    idempotency_keys, \* table idempotency_keys: key -> stored response or NoRow
    driver_hash,    \* redis hash driver:<id>: driver -> [pos] or NoRow (expired)
    drivers_geo,    \* redis geo set drivers_geo: driver -> position or NoRow
    assignments_id_seq, \* the serial that numbers inserted assignments
    req,            \* create_ride requests: position and locals of each
    timers,         \* _expire_assignment_worker tasks: assignment id -> position
    acc,            \* driver_accept requests: position and locals of each
    now,            \* the wall clock, in seconds
    endp,           \* end_trip requests: position and locals of each
    settle,         \* _simulate_payment tasks: payment id -> tasks not yet run
    pay,            \* trigger_payment requests: position and locals of each
    fnd,            \* find_nearest_driver calls: position and locals of each
    upd,            \* update_driver_location calls: position and locals of each
    cln             \* cleanup_stale_drivers, the sweep in progress: position and locals

vars == <<rides, assignments, trips, payments, idempotency_keys,
          driver_hash, drivers_geo, assignments_id_seq, req, timers, acc,
          now, endp, settle, pay, fnd, upd, cln>>

\* ------------------------------------------------------------ geo helpers
Abs(x) == IF x < 0 THEN -x ELSE x

haversine_km(a, b) == Abs(a - b)

\* the hash update_driver_location has written at second 0 and armed at once
FreshHash(pos) == [pos |-> pos, timestamp |-> 0, expire_at |-> HASH_TTL]

\* redis shows a key until its time to live is over (NoTime: none was set)
HashLive(d) ==
    /\ driver_hash[d] # NoRow
    /\ (driver_hash[d].expire_at = NoTime \/ now < driver_hash[d].expire_at)

\* the test of lines 87-90: the age of the position is above max_age_sec
HashStale(d) == now - driver_hash[d].timestamp > max_age_sec

\* get_driver_location as a read: the position of a driver whose hash exists
\* and is not older than max_age_sec.  The removal of a stale hash (line 92)
\* is a step of FindVerify; the clock of the specifications that use this
\* read alone stays far below max_age_sec.
get_driver_location(d) ==
    IF ~HashLive(d) \/ HashStale(d) THEN NoRow ELSE [pos |-> driver_hash[d].pos]

\* GEORADIUS ... WITHDIST ASC: the members within the radius, nearest first
\* (members at equal distance in ascending id)
Candidates(pickup, max_km) ==
    {d \in Drivers : drivers_geo[d] # NoRow
                     /\ haversine_km(pickup, drivers_geo[d].pos) <= max_km}

Before(pickup, d, e) ==
    LET dd == haversine_km(pickup, drivers_geo[d].pos)
        de == haversine_km(pickup, drivers_geo[e].pos)
    IN  dd < de \/ (dd = de /\ d < e)

Qualifies(pickup, max_km, d) ==
    /\ get_driver_location(d) # NoRow
    /\ haversine_km(pickup, get_driver_location(d).pos) <= max_km

find_nearest_driver(pickup, max_km) ==
    LET ok == {d \in Candidates(pickup, max_km) : Qualifies(pickup, max_km, d)}
    IN  IF ok = {} THEN NoDriver
        ELSE CHOOSE d \in ok : \A e \in ok \ {d} : Before(pickup, d, e)

\* --------------------------------------------------------------- initial
IdleReq == [pc |-> "idle", key |-> NoKey, pickup |-> 0, ride_id |-> 0,
            status |-> "", driver_id |-> NoDriver, assign_id |-> 0,
            matched |-> FALSE, failed |-> FALSE, result |-> "", response |-> NoRow]

IdleEnd == [pc |-> "idle", trip_id |-> 0, seen_status |-> "", end_at |-> 0,
            distance_km |-> 0, duration_sec |-> 0, fare |-> 0, result |-> ""]

IdleAcc == [pc |-> "idle", driver_id |-> 0, assignment_id |-> 0,
            ride_id |-> 0, result |-> "", trip_id |-> 0]

IdlePay == [pc |-> "idle", trip_id |-> 0, payment_id |-> 0, payment_status |-> "",
            result |-> ""]

IdleFnd == [pc |-> "idle", pickup |-> 0, max_km |-> 0, res |-> <<>>, i |-> 0,
            result |-> NoDriver]

IdleUpd == [pc |-> "idle", driver_id |-> 0, pos |-> 0]

IdleCln == [pc |-> "idle", all_drivers |-> <<>>, i |-> 0]

\* the states of the driver cache the rides are created against: the empty
\* index; two fresh drivers; one driver whose hash has expired (TTL) while its
\* index entry waits for the next cleanup
GeoStates ==
    { [d \in Drivers |-> [hash |-> NoRow, geo |-> NoRow]],
      [d \in Drivers |-> IF d = 1 THEN [hash |-> FreshHash(0), geo |-> [pos |-> 0]]
                         ELSE [hash |-> FreshHash(3), geo |-> [pos |-> 3]]],
      [d \in Drivers |-> IF d = 1 THEN [hash |-> NoRow, geo |-> [pos |-> 0]]
                         ELSE [hash |-> NoRow, geo |-> NoRow]] }

Init ==
    /\ rides = <<>>
    /\ assignments = [a \in AssignIds |-> NoRow]
    /\ trips = <<>>
    /\ payments = <<>>
    /\ idempotency_keys = [k \in Keys |-> NoRow]
    /\ \E g \in GeoStates :
          /\ driver_hash = [d \in Drivers |-> g[d].hash]
          /\ drivers_geo = [d \in Drivers |-> g[d].geo]
    /\ assignments_id_seq = 0
    /\ req = [r \in Reqs |-> IdleReq]
    /\ timers = [a \in AssignIds |-> "none"]
    /\ acc = [p \in Accs |-> IdleAcc]
    /\ now = 0
    /\ endp = [e \in Ends |-> IdleEnd]
    /\ settle = <<>>
    /\ pay = [g \in Pays |-> IdlePay]
    /\ fnd = [f \in Finds |-> IdleFnd]
    /\ upd = [u \in Upds |-> IdleUpd]
    /\ cln = IdleCln

\* ------------------------------------------------------------ create_ride
RideOut(id, status, pickup) == [id |-> id, status |-> status, pickup |-> pickup]

\* create_ride without the look-up of the key: every request inserts a ride
CreateRideStart_NoLookup(r, key, pickup) ==
    /\ req[r].pc = "idle"
    /\ \A q \in Reqs : q < r => req[q].pc # "idle"
    /\ rides' = Append(rides, [status |-> RIDE_SEARCHING, pickup |-> pickup])
    /\ req' = [req EXCEPT ![r] = [@ EXCEPT !.pc = "match", !.key = key,
                   !.pickup = pickup, !.ride_id = Len(rides) + 1,
                   !.status = RIDE_SEARCHING]]
    /\ UNCHANGED <<cln, pay, fnd, upd, assignments, trips, payments, idempotency_keys, driver_hash,
                   drivers_geo, assignments_id_seq, timers, acc, now, endp, settle>>

\* create_ride whose insert of the ride is not committed: the id is taken and
\* answered, the row is lost when the connection is closed
CreateRideStart_NotCommitted(r, key, pickup) ==
    /\ req[r].pc = "idle"
    /\ \A q \in Reqs : q < r => req[q].pc # "idle"
    /\ req' = [req EXCEPT ![r] = [@ EXCEPT !.pc = "match", !.key = key,
                   !.pickup = pickup, !.ride_id = Len(rides) + 1,
                   !.status = RIDE_SEARCHING]]
    /\ UNCHANGED <<cln, pay, fnd, upd, rides, assignments, trips, payments, idempotency_keys,
                   driver_hash, drivers_geo, assignments_id_seq, timers, acc, now, endp,
                   settle>>

\* routes.create_ride, lines 32-44: the idempotency look-up, then the insert
\* of the ride in Searching (two consecutive statements of one connection)
CreateRideStart(r, key, pickup) ==
    /\ req[r].pc = "idle"
    \* the requests are numbered in the order of their arrival
    /\ \A q \in Reqs : q < r => req[q].pc # "idle"
    /\ IF key # NoKey /\ idempotency_keys[key] # NoRow
       THEN /\ req' = [req EXCEPT ![r] = [@ EXCEPT !.pc = "done", !.key = key,
                           !.pickup = pickup, !.result = "200",
                           !.response = idempotency_keys[key]]]
            /\ UNCHANGED rides
       ELSE /\ rides' = Append(rides, [status |-> RIDE_SEARCHING, pickup |-> pickup])
            /\ req' = [req EXCEPT ![r] = [@ EXCEPT !.pc = "match", !.key = key,
                           !.pickup = pickup, !.ride_id = Len(rides) + 1,
                           !.status = RIDE_SEARCHING]]
    /\ UNCHANGED <<cln, pay, fnd, upd, assignments, trips, payments, idempotency_keys, driver_hash,
                   drivers_geo, assignments_id_seq, timers, acc, now, endp, settle>>

\* routes.create_ride, lines 47-57 and 63-67: the call of the discovery
\* service; a status other than 200 and an exception both leave the ride as is.
\* A GEORADIUS that raises is caught by find_nearest_driver (lines 108-112),
\* which returns None: the discovery service then answers 200 with no driver.
CreateRideMatch(r) ==
    /\ req[r].pc = "match"
    /\ \E outcome \in {"200", "geo_error", "500", "exception"} :
          LET d == IF outcome = "200"
                   THEN find_nearest_driver(req[r].pickup, max_distance_km)
                   ELSE NoDriver
          IN  req' = [req EXCEPT ![r] = [@ EXCEPT
                        !.pc = IF d # NoDriver THEN "offer" ELSE "respond",
                        !.driver_id = d, !.failed = (outcome # "200")]]
    /\ UNCHANGED <<cln, pay, fnd, upd, rides, assignments, trips, payments, idempotency_keys,
                   driver_hash, drivers_geo, assignments_id_seq, timers, acc, now, endp, settle>>

\* services.create_assignment inside routes.create_ride's engine.begin()
\* block: the insert and the update are written in the enclosing transaction,
\* the expiry task is created, and create_ride sets its local status; the
\* enclosing transaction is still open.  A store error on the write leaves
\* through create_ride's except clause.
CreateAssignment(r) ==
    /\ req[r].pc = "offer"
    /\ \E store_ok \in BOOLEAN :
          IF store_ok
          THEN /\ assignments_id_seq' = assignments_id_seq + 1
               /\ timers' = [timers EXCEPT ![assignments_id_seq + 1] = "sleeping"]
               /\ req' = [req EXCEPT ![r] = [@ EXCEPT !.pc = "commit",
                              !.assign_id = assignments_id_seq + 1,
                              !.status = RIDE_ASSIGNED]]
          ELSE /\ req' = [req EXCEPT ![r] = [@ EXCEPT !.pc = "respond"]]
               /\ UNCHANGED <<assignments_id_seq, timers>>
    /\ UNCHANGED <<cln, pay, fnd, upd, rides, assignments, trips, payments, idempotency_keys,
                   driver_hash, drivers_geo, acc, now, endp, settle>>

\* the commit writing the offer against the first ride, whichever ride the
\* request created
CreateRideCommit_FirstRide(r) ==
    /\ req[r].pc = "commit"
    /\ \E store_ok \in BOOLEAN :
          IF store_ok
          THEN /\ assignments' = [assignments EXCEPT ![req[r].assign_id] =
                      [ride_id |-> 1, driver_id |-> req[r].driver_id,
                       status |-> ASSIGN_OFFERED]]
               /\ rides' = [rides EXCEPT ![1].status = RIDE_ASSIGNED]
               /\ req' = [req EXCEPT ![r] = [@ EXCEPT !.pc = "respond", !.matched = TRUE]]
          ELSE /\ req' = [req EXCEPT ![r] = [@ EXCEPT !.pc = "respond"]]
               /\ UNCHANGED <<assignments, rides>>
    /\ UNCHANGED <<cln, pay, fnd, upd, trips, payments, idempotency_keys, driver_hash, drivers_geo,
                   assignments_id_seq, timers, acc, now, endp, settle>>

\* leaving the engine.begin() block of routes.create_ride: the commit makes
\* the Offered assignment and the ride's Assigned status visible together; a
\* failed commit rolls both back and leaves through the except clause
CreateRideCommit(r) ==
    /\ req[r].pc = "commit"
    /\ \E store_ok \in BOOLEAN :
          IF store_ok
          THEN /\ assignments' = [assignments EXCEPT ![req[r].assign_id] =
                      [ride_id |-> req[r].ride_id, driver_id |-> req[r].driver_id,
                       status |-> ASSIGN_OFFERED]]
               /\ rides' = [rides EXCEPT ![req[r].ride_id].status = RIDE_ASSIGNED]
               /\ req' = [req EXCEPT ![r] = [@ EXCEPT !.pc = "respond", !.matched = TRUE]]
          ELSE /\ req' = [req EXCEPT ![r] = [@ EXCEPT !.pc = "respond"]]
               /\ UNCHANGED <<assignments, rides>>
    /\ UNCHANGED <<cln, pay, fnd, upd, trips, payments, idempotency_keys, driver_hash, drivers_geo,
                   assignments_id_seq, timers, acc, now, endp, settle>>

\* routes.create_ride, lines 69-73: the response, stored under the key when
\* one was sent; the key column is unique, so a second insert of a key raises
CreateRideRespond(r) ==
    /\ req[r].pc = "respond"
    /\ LET output == RideOut(req[r].ride_id, req[r].status, req[r].pickup)
           k == req[r].key
       IN  IF k # NoKey /\ idempotency_keys[k] # NoRow
           THEN /\ req' = [req EXCEPT ![r] = [@ EXCEPT !.pc = "done", !.result = "500"]]
                /\ UNCHANGED idempotency_keys
           ELSE /\ req' = [req EXCEPT ![r] = [@ EXCEPT !.pc = "done", !.result = "200",
                               !.response = output]]
                /\ idempotency_keys' =
                       IF k # NoKey THEN [idempotency_keys EXCEPT ![k] = output]
                       ELSE idempotency_keys
    /\ UNCHANGED <<cln, pay, fnd, upd, rides, assignments, trips, payments, driver_hash, drivers_geo,
                   assignments_id_seq, timers, acc, now, endp, settle>>

\* ------------------------------------------------------------------ get_ride
\* routes.get_ride: 404 when the ride has no row; otherwise the ride and,
\* when the ride has one, its assignment (a ride has at most one row in
\* assignments, so first() is that row)
get_ride(ride_id) ==
    IF ride_id \notin DOMAIN rides
    THEN [status_code |-> "404"]
    ELSE LET found == {a \in AssignIds : /\ assignments[a] # NoRow
                                         /\ assignments[a].ride_id = ride_id}
         IN  [status_code |-> "200", id |-> ride_id, status |-> rides[ride_id].status,
              pickup |-> rides[ride_id].pickup,
              assignment |->
                  IF found = {} THEN NoRow
                  ELSE LET a == CHOOSE x \in found : \A y \in found : x <= y
                       IN  [id |-> a, driver_id |-> assignments[a].driver_id,
                            status |-> assignments[a].status]]

\* ------------------------------------------------ _expire_assignment_worker
\* the expiry worker without the test of the status at line 164
ExpireSelect_NoStatusTest(a) ==
    /\ timers[a] = "sleeping"
    /\ timers' = [timers EXCEPT ![a] = IF assignments[a] # NoRow THEN "update" ELSE "done"]
    /\ UNCHANGED <<cln, pay, fnd, upd, rides, assignments, trips, payments, idempotency_keys,
                   driver_hash, drivers_geo, assignments_id_seq, req, acc, now, endp,
                   settle>>

\* after the sleep: the select of the assignment, outside any transaction
ExpireSelect(a) ==
    /\ timers[a] = "sleeping"
    /\ timers' = [timers EXCEPT ![a] =
           IF assignments[a] # NoRow /\ assignments[a].status = ASSIGN_OFFERED
           THEN "update" ELSE "done"]
    /\ UNCHANGED <<cln, pay, fnd, upd, rides, assignments, trips, payments, idempotency_keys,
                   driver_hash, drivers_geo, assignments_id_seq, req, acc, now, endp, settle>>

\* the transaction of the worker: both updates are keyed by id alone
ExpireUpdate(a) ==
    /\ timers[a] = "update"
    /\ assignments' = [assignments EXCEPT ![a].status = ASSIGN_EXPIRED]
    /\ rides' = [rides EXCEPT ![assignments[a].ride_id].status = RIDE_SEARCHING]
    /\ timers' = [timers EXCEPT ![a] = "done"]
    /\ UNCHANGED <<cln, pay, fnd, upd, trips, payments, idempotency_keys, driver_hash, drivers_geo,
                   assignments_id_seq, req, acc, now, endp, settle>>

\* -------------------------------------------------------- accept_assignment
\* the trip row accept_assignment inserts; the columns it does not set take
\* the defaults of models.trips
NewTrip(ride_id, driver_id, start_at) ==
    [ride_id |-> ride_id, driver_id |-> driver_id, start_at |-> start_at,
     end_at |-> NoTime, distance_km |-> 0, duration_sec |-> 0, fare |-> 0,
     status |-> TRIP_ONGOING]

\* accept_assignment selecting by id alone, whoever the driver is
AcceptSelect_AnyDriver(p, d, a) ==
    /\ acc[p].pc = "idle"
    /\ \A q \in Accs : q < p => acc[q].pc # "idle"
    /\ acc' = [acc EXCEPT ![p] =
           IF assignments[a] # NoRow /\ assignments[a].status = ASSIGN_OFFERED
           THEN [@ EXCEPT !.pc = "update", !.driver_id = d, !.assignment_id = a,
                          !.ride_id = assignments[a].ride_id]
           ELSE [@ EXCEPT !.pc = "done", !.driver_id = d, !.assignment_id = a,
                          !.result = "400"]]
    /\ UNCHANGED <<cln, pay, fnd, upd, rides, assignments, trips, payments, idempotency_keys,
                   driver_hash, drivers_geo, assignments_id_seq, req, timers, now, endp, settle>>

\* accept_assignment without the test of the status at lines 188-190
AcceptSelect_NoStatusTest(p, d, a) ==
    /\ acc[p].pc = "idle"
    /\ \A q \in Accs : q < p => acc[q].pc # "idle"
    /\ LET found == assignments[a] # NoRow /\ assignments[a].driver_id = d
       IN  acc' = [acc EXCEPT ![p] =
               IF found
               THEN [@ EXCEPT !.pc = "update", !.driver_id = d, !.assignment_id = a,
                              !.ride_id = assignments[a].ride_id]
               ELSE [@ EXCEPT !.pc = "done", !.driver_id = d, !.assignment_id = a,
                              !.result = "400"]]
    /\ UNCHANGED <<cln, pay, fnd, upd, rides, assignments, trips, payments, idempotency_keys,
                   driver_hash, drivers_geo, assignments_id_seq, req, timers, now, endp, settle>>

\* accept_assignment that marks the assignment Accepted and opens no trip
AcceptUpdate_NoTrip(p) ==
    /\ acc[p].pc = "update"
    /\ assignments' = [assignments EXCEPT ![acc[p].assignment_id].status = ASSIGN_ACCEPTED]
    /\ acc' = [acc EXCEPT ![p] = [@ EXCEPT !.pc = "done", !.result = "200",
                                            !.trip_id = Len(trips) + 1]]
    /\ UNCHANGED <<cln, pay, fnd, upd, rides, trips, payments, idempotency_keys, driver_hash, drivers_geo,
                   assignments_id_seq, req, timers, now, endp, settle>>

\* the select by (id, driver_id) and the status test, lines 178-190
AcceptSelect(p, d, a) ==
    /\ acc[p].pc = "idle"
    \* the requests are numbered in the order of their arrival
    /\ \A q \in Accs : q < p => acc[q].pc # "idle"
    /\ LET found == assignments[a] # NoRow /\ assignments[a].driver_id = d
       IN  acc' = [acc EXCEPT ![p] =
               IF found /\ assignments[a].status = ASSIGN_OFFERED
               THEN [@ EXCEPT !.pc = "update", !.driver_id = d, !.assignment_id = a,
                              !.ride_id = assignments[a].ride_id]
               ELSE [@ EXCEPT !.pc = "done", !.driver_id = d, !.assignment_id = a,
                              !.result = "400"]]
    /\ UNCHANGED <<cln, pay, fnd, upd, rides, assignments, trips, payments, idempotency_keys,
                   driver_hash, drivers_geo, assignments_id_seq, req, timers, now, endp, settle>>

\* the update keyed by id alone, the insert of the trip, the commit and the
\* read of the trip that is returned, lines 191-207
AcceptUpdate(p) ==
    /\ acc[p].pc = "update"
    /\ assignments' = [assignments EXCEPT ![acc[p].assignment_id].status = ASSIGN_ACCEPTED]
    /\ trips' = Append(trips, NewTrip(acc[p].ride_id, acc[p].driver_id, now))
    /\ acc' = [acc EXCEPT ![p] = [@ EXCEPT !.pc = "done", !.result = "200",
                                            !.trip_id = Len(trips) + 1]]
    /\ UNCHANGED <<cln, pay, fnd, upd, rides, payments, idempotency_keys, driver_hash, drivers_geo,
                   assignments_id_seq, req, timers, now, endp, settle>>

\* ------------------------------------------------------------------ end_trip
\* the fare of services.end_trip, 2.0 + km * 1.5 + (sec / 60) * 0.2, in units
\* of 1/300 so that it stays an integer
fare_of(distance_km, duration_sec) == 600 + distance_km * 450 + duration_sec

\* services.end_trip, lines 212-230: the select of the trip (no test of its
\* status), the reference position read from the driver cache, the computed
\* distance, duration and fare.  routes.end_trip answers 404 to a missing trip.
EndTripSelect(e, trip_id, end_loc) ==
    /\ endp[e].pc = "idle"
    \* the requests are numbered in the order of their arrival
    /\ \A q \in Ends : q < e => endp[q].pc # "idle"
    /\ IF trip_id \notin DOMAIN trips
       THEN endp' = [endp EXCEPT ![e] = [@ EXCEPT !.pc = "done", !.trip_id = trip_id,
                                                  !.result = "404"]]
       ELSE LET trip == trips[trip_id]
                start_loc == IF end_loc # NoLoc THEN get_driver_location(trip.driver_id)
                             ELSE NoRow
                distance_km == IF start_loc # NoRow
                               THEN haversine_km(start_loc.pos, end_loc)
                               ELSE trip.distance_km
                duration_sec == now - trip.start_at
            IN  endp' = [endp EXCEPT ![e] = [@ EXCEPT !.pc = "update",
                            !.trip_id = trip_id, !.seen_status = trip.status,
                            !.end_at = now, !.distance_km = distance_km,
                            !.duration_sec = duration_sec,
                            !.fare = fare_of(distance_km, duration_sec)]]
    /\ UNCHANGED <<cln, pay, fnd, upd, rides, assignments, trips, payments, idempotency_keys, driver_hash,
                   drivers_geo, assignments_id_seq, req, timers, acc, now, settle>>

\* end_trip that inserts the payment and creates no settlement task
EndTripUpdate_NoTask(e) ==
    /\ endp[e].pc = "update"
    /\ trips' = [trips EXCEPT ![endp[e].trip_id] = [@ EXCEPT
                    !.end_at = endp[e].end_at, !.distance_km = endp[e].distance_km,
                    !.duration_sec = endp[e].duration_sec, !.fare = endp[e].fare,
                    !.status = TRIP_COMPLETED]]
    /\ payments' = Append(payments, [trip_id |-> endp[e].trip_id, amount |-> endp[e].fare,
                                     status |-> PAY_PENDING, provider_response |-> "null"])
    /\ settle' = Append(settle, 0)
    /\ endp' = [endp EXCEPT ![e] = [@ EXCEPT !.pc = "done", !.result = "200"]]
    /\ UNCHANGED <<cln, pay, fnd, upd, rides, assignments, idempotency_keys, driver_hash,
                   drivers_geo, assignments_id_seq, req, timers, acc, now>>

\* services.end_trip, lines 233-244: the transaction that completes the trip
\* and inserts the Pending payment, then the settlement task and the answer
EndTripUpdate(e) ==
    /\ endp[e].pc = "update"
    /\ trips' = [trips EXCEPT ![endp[e].trip_id] = [@ EXCEPT
                    !.end_at = endp[e].end_at, !.distance_km = endp[e].distance_km,
                    !.duration_sec = endp[e].duration_sec, !.fare = endp[e].fare,
                    !.status = TRIP_COMPLETED]]
    /\ payments' = Append(payments, [trip_id |-> endp[e].trip_id, amount |-> endp[e].fare,
                                     status |-> PAY_PENDING, provider_response |-> "null"])
    /\ settle' = Append(settle, 1)
    /\ endp' = [endp EXCEPT ![e] = [@ EXCEPT !.pc = "done", !.result = "200"]]
    /\ UNCHANGED <<cln, pay, fnd, upd, rides, assignments, idempotency_keys, driver_hash, drivers_geo,
                   assignments_id_seq, req, timers, acc, now>>

\* a settlement whose provider answer depends on the run: a payment that is
\* Success is marked Failed
SimulatePayment_Flip(pid) ==
    /\ pid \in DOMAIN settle
    /\ settle[pid] > 0
    /\ payments' = [payments EXCEPT ![pid] = [@ EXCEPT
                       !.status = IF @ = PAY_SUCCESS THEN PAY_FAILED ELSE PAY_SUCCESS,
                       !.provider_response = "simulated"]]
    /\ settle' = [settle EXCEPT ![pid] = @ - 1]
    /\ UNCHANGED <<cln, pay, fnd, upd, rides, assignments, trips, idempotency_keys, driver_hash,
                   drivers_geo, assignments_id_seq, req, timers, acc, now, endp>>

\* services._simulate_payment after its sleep: the update is keyed by id alone
SimulatePayment(pid) ==
    /\ pid \in DOMAIN settle
    /\ settle[pid] > 0
    /\ payments' = [payments EXCEPT ![pid] = [@ EXCEPT !.status = PAY_SUCCESS,
                                                       !.provider_response = "simulated"]]
    /\ settle' = [settle EXCEPT ![pid] = @ - 1]
    /\ UNCHANGED <<cln, pay, fnd, upd, rides, assignments, trips, idempotency_keys, driver_hash, drivers_geo,
                   assignments_id_seq, req, timers, acc, now, endp>>

\* ------------------------------------------------------------ trigger_payment
\* the payments of a trip; the select of routes.py:151 takes the latest
PaymentsOfTrip(trip_id) == {pid \in DOMAIN payments : payments[pid].trip_id = trip_id}

LatestPayment(trip_id) ==
    CHOOSE pid \in PaymentsOfTrip(trip_id) : \A q \in PaymentsOfTrip(trip_id) : q <= pid

\* routes.trigger_payment, lines 151-184: the select of the latest payment of
\* the trip and of its status (404 when the trip has none), then the selects
\* of the trip and of the ride, which exist whenever the payment does
TriggerPaymentSelect(g, trip_id) ==
    /\ pay[g].pc = "idle"
    \* the requests are numbered in the order of their arrival
    /\ \A q \in Pays : q < g => pay[q].pc # "idle"
    /\ pay' = [pay EXCEPT ![g] =
           IF PaymentsOfTrip(trip_id) = {}
           THEN [@ EXCEPT !.pc = "done", !.trip_id = trip_id, !.result = "404"]
           ELSE [@ EXCEPT !.pc = "schedule", !.trip_id = trip_id,
                          !.payment_id = LatestPayment(trip_id),
                          !.payment_status = payments[LatestPayment(trip_id)].status]]
    /\ UNCHANGED <<cln, fnd, upd, rides, assignments, trips, payments, idempotency_keys,
                   driver_hash, drivers_geo, assignments_id_seq, req, timers, acc, now,
                   endp, settle>>

\* routes.trigger_payment, lines 187-206: a settlement task is created when
\* the status that was read is Pending; the receipt carries that status
TriggerPaymentSchedule(g) ==
    /\ pay[g].pc = "schedule"
    /\ settle' = IF pay[g].payment_status = PAY_PENDING
                 THEN [settle EXCEPT ![pay[g].payment_id] = @ + 1]
                 ELSE settle
    /\ pay' = [pay EXCEPT ![g] = [@ EXCEPT !.pc = "done", !.result = "200"]]
    /\ UNCHANGED <<cln, fnd, upd, rides, assignments, trips, payments, idempotency_keys,
                   driver_hash, drivers_geo, assignments_id_seq, req, timers, acc, now,
                   endp>>

\* the passage of one second
Tick ==
    /\ now < MaxTime
    /\ now' = now + 1
    /\ UNCHANGED <<cln, pay, fnd, upd, rides, assignments, trips, payments, idempotency_keys, driver_hash,
                   drivers_geo, assignments_id_seq, req, timers, acc, endp, settle>>

\* ------------------------------------------------------------------- next
Next ==
    \/ \E r \in Reqs, k \in Keys \cup {NoKey}, pickup \in Pickups : CreateRideStart(r, k, pickup)
    \/ \E r \in Reqs : CreateRideMatch(r)
    \/ \E r \in Reqs : CreateAssignment(r)
    \/ \E r \in Reqs : CreateRideCommit(r)
    \/ \E r \in Reqs : CreateRideRespond(r)
    \/ \E a \in AssignIds : ExpireSelect(a)
    \/ \E a \in AssignIds : ExpireUpdate(a)
    \/ \E p \in Accs, d \in Drivers, a \in AssignIds : AcceptSelect(p, d, a)
    \/ \E p \in Accs : AcceptUpdate(p)

Spec == Init /\ [][Next]_vars

\* Scheduling: the event loop runs every task that is ready, so a handler that
\* has started reaches its end and a worker whose sleep is over runs; whether
\* a request arrives at all is left open.
Fairness ==
    /\ \A r \in Reqs : WF_vars(CreateRideMatch(r) \/ CreateAssignment(r)
                                \/ CreateRideCommit(r) \/ CreateRideRespond(r))
    /\ \A a \in AssignIds : WF_vars(ExpireSelect(a) \/ ExpireUpdate(a))
    /\ \A p \in Accs : WF_vars(AcceptUpdate(p))

SpecLive == Init /\ [][Next]_vars /\ Fairness

\* ------------------------------------------- the creation of rides, alone
\* create_ride and the expiry workers it starts, with no driver answering
NextCreate ==
    \/ \E r \in Reqs, k \in Keys \cup {NoKey}, pickup \in Pickups : CreateRideStart(r, k, pickup)
    \/ \E r \in Reqs : CreateRideMatch(r)
    \/ \E r \in Reqs : CreateAssignment(r)
    \/ \E r \in Reqs : CreateRideCommit(r)
    \/ \E r \in Reqs : CreateRideRespond(r)
    \/ \E a \in AssignIds : ExpireSelect(a)
    \/ \E a \in AssignIds : ExpireUpdate(a)

SpecCreate == Init /\ [][NextCreate]_vars

\* ------------------------------------------------- the offers, once made
\* The state after MaxTrips rides were created without a key at pickup 0 and
\* offered to driver 1: each offer is Offered and its expiry worker asleep.
OfferedReq(i) == [IdleReq EXCEPT !.pc = "done", !.ride_id = i, !.status = RIDE_ASSIGNED,
                      !.driver_id = 1, !.assign_id = i, !.matched = TRUE, !.result = "200",
                      !.response = RideOut(i, RIDE_ASSIGNED, 0)]

InitAccept ==
    /\ rides = [i \in 1..MaxTrips |-> [status |-> RIDE_ASSIGNED, pickup |-> 0]]
    /\ assignments = [a \in AssignIds |->
          IF a <= MaxTrips
          THEN [ride_id |-> a, driver_id |-> 1, status |-> ASSIGN_OFFERED]
          ELSE NoRow]
    /\ trips = <<>>
    /\ payments = <<>>
    /\ idempotency_keys = [k \in Keys |-> NoRow]
    /\ driver_hash = [d \in Drivers |-> IF d = 1 THEN FreshHash(0) ELSE NoRow]
    /\ drivers_geo = [d \in Drivers |-> IF d = 1 THEN [pos |-> 0] ELSE NoRow]
    /\ assignments_id_seq = MaxTrips
    /\ req = [r \in Reqs |-> IF r <= MaxTrips THEN OfferedReq(r) ELSE IdleReq]
    /\ timers = [a \in AssignIds |-> IF a <= MaxTrips THEN "sleeping" ELSE "none"]
    /\ acc = [p \in Accs |-> IdleAcc]
    /\ now = 0
    /\ endp = [e \in Ends |-> IdleEnd]
    /\ settle = <<>>
    /\ pay = [g \in Pays |-> IdlePay]
    /\ fnd = [f \in Finds |-> IdleFnd]
    /\ upd = [u \in Upds |-> IdleUpd]
    /\ cln = IdleCln

NextAccept ==
    \/ \E p \in Accs, d \in Drivers, a \in AssignIds : AcceptSelect(p, d, a)
    \/ \E p \in Accs : AcceptUpdate(p)
    \/ \E a \in AssignIds : ExpireSelect(a)
    \/ \E a \in AssignIds : ExpireUpdate(a)

SpecAccept == InitAccept /\ [][NextAccept]_vars

\* ----------------------------------------------------- the trips, once open
\* The state after MaxTrips rides were created without a key at pickup 0,
\* offered to driver 1 and accepted by it at second 0; driver 1's cached
\* position is either fresh or gone.
DoneAcc(i) == [IdleAcc EXCEPT !.pc = "done", !.driver_id = 1, !.assignment_id = i,
                   !.ride_id = i, !.result = "200", !.trip_id = i]

InitTrip ==
    /\ rides = [i \in 1..MaxTrips |-> [status |-> RIDE_ASSIGNED, pickup |-> 0]]
    /\ assignments = [a \in AssignIds |->
          IF a <= MaxTrips
          THEN [ride_id |-> a, driver_id |-> 1, status |-> ASSIGN_ACCEPTED]
          ELSE NoRow]
    /\ trips = [i \in 1..MaxTrips |-> NewTrip(i, 1, 0)]
    /\ payments = <<>>
    /\ idempotency_keys = [k \in Keys |-> NoRow]
    /\ \E h \in {NoRow, FreshHash(0)} :
          /\ driver_hash = [d \in Drivers |-> IF d = 1 THEN h ELSE NoRow]
          /\ drivers_geo = [d \in Drivers |-> IF d = 1 THEN [pos |-> 0] ELSE NoRow]
    /\ assignments_id_seq = MaxTrips
    /\ req = [r \in Reqs |-> IF r <= MaxTrips THEN OfferedReq(r) ELSE IdleReq]
    /\ timers = [a \in AssignIds |-> IF a <= MaxTrips THEN "done" ELSE "none"]
    /\ acc = [p \in Accs |-> IF p <= MaxTrips THEN DoneAcc(p) ELSE IdleAcc]
    /\ now = 0
    /\ endp = [e \in Ends |-> IdleEnd]
    /\ settle = <<>>
    /\ pay = [g \in Pays |-> IdlePay]
    /\ fnd = [f \in Finds |-> IdleFnd]
    /\ upd = [u \in Upds |-> IdleUpd]
    /\ cln = IdleCln

NextTrip ==
    \/ \E e \in Ends, t \in 1..(MaxTrips + 1), end_loc \in EndLocs \cup {NoLoc} :
          EndTripSelect(e, t, end_loc)
    \/ \E e \in Ends : EndTripUpdate(e)
    \/ \E pid \in 1..MaxEnd : SimulatePayment(pid)
    \/ Tick

SpecTrip == InitTrip /\ [][NextTrip]_vars

\* Scheduling of the settlements: the event loop runs a settlement task once
\* its sleep is over; whether and when requests arrive is left open.
FairnessTrip == \A pid \in 1..MaxEnd : WF_vars(SimulatePayment(pid))

\* end_trip and the settlements at one instant
NextSettle ==
    \/ \E e \in Ends, t \in 1..(MaxTrips + 1), end_loc \in EndLocs \cup {NoLoc} :
          EndTripSelect(e, t, end_loc)
    \/ \E e \in Ends : EndTripUpdate(e)
    \/ \E pid \in 1..MaxEnd : SimulatePayment(pid)

SpecSettle == InitTrip /\ [][NextSettle]_vars /\ FairnessTrip

\* --------------------------------------------- the expiry worker, run again
\* _expire_assignment_worker called once more for an assignment whose worker
\* has ended (lines 157-159: a new task sleeps, then selects)
ExpireRerun(a) ==
    /\ timers[a] = "done"
    /\ timers' = [timers EXCEPT ![a] = "sleeping"]
    /\ UNCHANGED <<cln, pay, fnd, upd, rides, assignments, trips, payments, idempotency_keys,
                   driver_hash, drivers_geo, assignments_id_seq, req, acc, now, endp,
                   settle>>

\* the offers once made, with accepts, and with workers that run any number
\* of times
NextExpire ==
    \/ \E p \in Accs, d \in Drivers, a \in AssignIds : AcceptSelect(p, d, a)
    \/ \E p \in Accs : AcceptUpdate(p)
    \/ \E a \in AssignIds : ExpireSelect(a)
    \/ \E a \in AssignIds : ExpireUpdate(a)
    \/ \E a \in AssignIds : ExpireRerun(a)

SpecExpire == InitAccept /\ [][NextExpire]_vars

\* ------------------------------------------------ the payments of a trip
\* The trips once open, at one instant: end_trip, POST /payments and the
\* settlement tasks both of them create.
NextPay ==
    \/ \E e \in Ends, t \in 1..MaxTrips : EndTripSelect(e, t, NoLoc)
    \/ \E e \in Ends : EndTripUpdate(e)
    \/ \E pid \in 1..MaxEnd : SimulatePayment(pid)
    \/ \E g \in Pays, t \in 1..(MaxTrips + 1) : TriggerPaymentSelect(g, t)
    \/ \E g \in Pays : TriggerPaymentSchedule(g)

SpecPay == InitTrip /\ [][NextPay]_vars

\* ------------------------------------------------------- the driver cache
\* the instants the clock of the cache is observed at: around second 0 and
\* around the age at which a position is dropped
GeoTimes == {2, max_age_sec, max_age_sec + 1}

\* time passes, by any amount, up to a later instant of GeoTimes
TickGeo ==
    /\ \E t \in GeoTimes : t > now /\ now' = t
    /\ UNCHANGED <<cln, pay, fnd, upd, rides, assignments, trips, payments, idempotency_keys,
                   driver_hash, drivers_geo, assignments_id_seq, req, timers, acc, endp,
                   settle>>

\* update_driver_location, line 61: HSET of the position and of the time of
\* the write; HSET keeps the time to live of a hash that exists and creates a
\* missing hash with none
UpdateHset(u, d, pos) ==
    /\ upd[u].pc = "idle"
    \* the calls are numbered in the order of their arrival
    /\ \A q \in Upds : q < u => upd[q].pc # "idle"
    /\ driver_hash' = [driver_hash EXCEPT ![d] =
           [pos |-> pos, timestamp |-> now,
            expire_at |-> IF HashLive(d) THEN driver_hash[d].expire_at ELSE NoTime]]
    /\ upd' = [upd EXCEPT ![u] = [pc |-> "expire", driver_id |-> d, pos |-> pos]]
    /\ UNCHANGED <<cln, pay, fnd, rides, assignments, trips, payments, idempotency_keys,
                   drivers_geo, assignments_id_seq, req, timers, acc, now, endp, settle>>

\* update_driver_location, line 67: EXPIRE arms the 300 s of a hash that
\* exists and does nothing to a missing one
UpdateExpire(u) ==
    /\ upd[u].pc = "expire"
    /\ driver_hash' = IF HashLive(upd[u].driver_id)
                      THEN [driver_hash EXCEPT ![upd[u].driver_id].expire_at = now + HASH_TTL]
                      ELSE driver_hash
    /\ upd' = [upd EXCEPT ![u].pc = "geoadd"]
    /\ UNCHANGED <<cln, pay, fnd, rides, assignments, trips, payments, idempotency_keys,
                   drivers_geo, assignments_id_seq, req, timers, acc, now, endp, settle>>

\* update_driver_location, line 68: GEOADD of the position to the index
UpdateGeoadd(u) ==
    /\ upd[u].pc = "geoadd"
    /\ drivers_geo' = [drivers_geo EXCEPT ![upd[u].driver_id] = [pos |-> upd[u].pos]]
    \* the call returns and its locals are gone
    /\ upd' = [upd EXCEPT ![u] = [IdleUpd EXCEPT !.pc = "done"]]
    /\ UNCHANGED <<cln, pay, fnd, rides, assignments, trips, payments, idempotency_keys,
                   driver_hash, assignments_id_seq, req, timers, acc, now, endp, settle>>

Nearest(pickup, S) == CHOOSE d \in S : \A e \in S \ {d} : Before(pickup, d, e)

\* the answer of GEORADIUS ... WITHDIST COUNT 50 ASC over the members S
RECURSIVE GeoRadius(_, _)
GeoRadius(pickup, S) ==
    IF S = {} THEN <<>>
    ELSE <<Nearest(pickup, S)>> \o GeoRadius(pickup, S \ {Nearest(pickup, S)})

\* find_nearest_driver, lines 105-114: the radius query; a query that raises
\* and an empty answer both return None
FindQuery(f, pickup, max_km) ==
    /\ fnd[f].pc = "idle"
    \* the calls are numbered in the order of their arrival
    /\ \A q \in Finds : q < f => fnd[q].pc # "idle"
    /\ \E redis_ok \in BOOLEAN :
          LET res == IF redis_ok THEN GeoRadius(pickup, Candidates(pickup, max_km))
                     ELSE <<>>
          IN  fnd' = [fnd EXCEPT ![f] =
                  IF res = <<>> THEN [IdleFnd EXCEPT !.pc = "done"]
                  ELSE [pc |-> "verify", pickup |-> pickup, max_km |-> max_km,
                        res |-> res, i |-> 1, result |-> NoDriver]]
    /\ UNCHANGED <<cln, pay, upd, rides, assignments, trips, payments, idempotency_keys,
                   driver_hash, drivers_geo, assignments_id_seq, req, timers, acc, now,
                   endp, settle>>

\* the call returns: of its locals the record keeps the driver returned and
\* the number of the entry the loop ended at
FindReturn(f, did) ==
    [fnd EXCEPT ![f] = [IdleFnd EXCEPT !.pc = "done", !.i = fnd[f].i, !.result = did]]

\* the next entry of the loop is skipped: the loop goes on, or ends with None
FindSkip(f) ==
    IF fnd[f].i < Len(fnd[f].res)
    THEN [fnd EXCEPT ![f].i = @ + 1]
    ELSE FindReturn(f, NoDriver)

\* find_nearest_driver that returns the entry of the index whose hash exists,
\* without the tests of its age and of its distance
FindVerify_TrustIndex(f) ==
    /\ fnd[f].pc = "verify"
    /\ fnd' = IF HashLive(fnd[f].res[fnd[f].i])
              THEN FindReturn(f, fnd[f].res[fnd[f].i])
              ELSE FindSkip(f)
    /\ UNCHANGED <<cln, pay, upd, rides, assignments, trips, payments, idempotency_keys,
                   driver_hash, drivers_geo, assignments_id_seq, req, timers, acc, now,
                   endp, settle>>

\* find_nearest_driver, lines 116-138, one entry of the answer: the call of
\* get_driver_location (a missing hash gives None; a stale one is removed from
\* the hash and from the index and gives None), then the test of the distance
FindVerify(f) ==
    /\ fnd[f].pc = "verify"
    /\ LET did == fnd[f].res[fnd[f].i]
       IN  IF ~HashLive(did)
           THEN /\ fnd' = FindSkip(f)
                /\ UNCHANGED <<driver_hash, drivers_geo>>
           ELSE IF HashStale(did)
           THEN /\ driver_hash' = [driver_hash EXCEPT ![did] = NoRow]
                /\ drivers_geo' = [drivers_geo EXCEPT ![did] = NoRow]
                /\ fnd' = FindSkip(f)
           ELSE /\ fnd' = IF haversine_km(fnd[f].pickup, driver_hash[did].pos) <= fnd[f].max_km
                          THEN FindReturn(f, did)
                          ELSE FindSkip(f)
                /\ UNCHANGED <<driver_hash, drivers_geo>>
    /\ UNCHANGED <<cln, pay, upd, rides, assignments, trips, payments, idempotency_keys,
                   assignments_id_seq, req, timers, acc, now, endp, settle>>

NextGeo ==
    \/ \E u \in Upds, d \in Drivers, pos \in Positions : UpdateHset(u, d, pos)
    \/ \E u \in Upds : UpdateExpire(u)
    \/ \E u \in Upds : UpdateGeoadd(u)
    \/ \E f \in Finds, pickup \in Pickups, max_km \in MaxKms : FindQuery(f, pickup, max_km)
    \/ \E f \in Finds : FindVerify(f)
    \/ TickGeo

\* the states of the cache the calls start from: those of GeoStates, and the
\* one an update of driver 1 leaves when it stops between its HSET and its
\* EXPIRE (the hash has no time to live) while the other drivers are fresh
StalledHash(pos) == [pos |-> pos, timestamp |-> 0, expire_at |-> NoTime]

GeoCacheStates ==
    GeoStates \cup
    { [d \in Drivers |-> IF d = 1 THEN [hash |-> StalledHash(0), geo |-> [pos |-> 0]]
                         ELSE [hash |-> FreshHash(3), geo |-> [pos |-> 3]]] }

InitGeo ==
    /\ rides = <<>>
    /\ assignments = [a \in AssignIds |-> NoRow]
    /\ trips = <<>>
    /\ payments = <<>>
    /\ idempotency_keys = [k \in Keys |-> NoRow]
    /\ \E g \in GeoCacheStates :
          /\ driver_hash = [d \in Drivers |-> g[d].hash]
          /\ drivers_geo = [d \in Drivers |-> g[d].geo]
    /\ assignments_id_seq = 0
    /\ req = [r \in Reqs |-> IdleReq]
    /\ timers = [a \in AssignIds |-> "none"]
    /\ acc = [p \in Accs |-> IdleAcc]
    /\ now = 0
    /\ endp = [e \in Ends |-> IdleEnd]
    /\ settle = <<>>
    /\ pay = [g \in Pays |-> IdlePay]
    /\ fnd = [f \in Finds |-> IdleFnd]
    /\ upd = [u \in Upds |-> IdleUpd]
    /\ cln = IdleCln

SpecGeo == InitGeo /\ [][NextGeo]_vars

\* ------------------------------------------------- cleanup_stale_drivers
\* the answer of ZRANGE drivers_geo 0 -1: the members by ascending score,
\* which on one meridian is by ascending position, then by member
ZFirst(S) ==
    CHOOSE d \in S : \A e \in S \ {d} :
        \/ drivers_geo[d].pos < drivers_geo[e].pos
        \/ drivers_geo[d].pos = drivers_geo[e].pos /\ d < e

RECURSIVE ZRange(_)
ZRange(S) ==
    IF S = {} THEN <<>> ELSE <<ZFirst(S)>> \o ZRange(S \ {ZFirst(S)})

\* the loop of the sweep goes to its next member, or ends: the call returns
\* and its locals are gone
CleanupAdvance ==
    IF cln.i < Len(cln.all_drivers)
    THEN [cln EXCEPT !.pc = "exists", !.i = @ + 1]
    ELSE [IdleCln EXCEPT !.pc = "done"]

\* periodic_cache_cleanup calls cleanup_stale_drivers again and again, one
\* sweep after the other; line 44: the members of the index are read once
CleanupStart ==
    /\ cln.pc \in {"idle", "done"}
    /\ LET all_drivers == ZRange({d \in Drivers : drivers_geo[d] # NoRow})
       IN  cln' = IF all_drivers = <<>> THEN [IdleCln EXCEPT !.pc = "done"]
                  ELSE [pc |-> "exists", all_drivers |-> all_drivers, i |-> 1]
    /\ UNCHANGED <<pay, fnd, upd, rides, assignments, trips, payments, idempotency_keys,
                   driver_hash, drivers_geo, assignments_id_seq, req, timers, acc, now,
                   endp, settle>>

\* cleanup_stale_drivers, line 49: EXISTS of the member's hash; the age of
\* the position is not read
CleanupExists ==
    /\ cln.pc = "exists"
    /\ cln' = IF ~HashLive(cln.all_drivers[cln.i])
              THEN [cln EXCEPT !.pc = "zrem"]
              ELSE CleanupAdvance
    /\ UNCHANGED <<pay, fnd, upd, rides, assignments, trips, payments, idempotency_keys,
                   driver_hash, drivers_geo, assignments_id_seq, req, timers, acc, now,
                   endp, settle>>

\* cleanup_stale_drivers, line 51: ZREM of the member whose hash was missing
CleanupZrem ==
    /\ cln.pc = "zrem"
    /\ drivers_geo' = [drivers_geo EXCEPT ![cln.all_drivers[cln.i]] = NoRow]
    /\ cln' = CleanupAdvance
    /\ UNCHANGED <<pay, fnd, upd, rides, assignments, trips, payments, idempotency_keys,
                   driver_hash, assignments_id_seq, req, timers, acc, now, endp, settle>>

\* no update_driver_location is between its first and its last command
NoUpdateInFlight == \A u \in DOMAIN upd : upd[u].pc \in {"idle", "done"}

\* no sweep is between its first and its last command
NoSweepInFlight == cln.pc \in {"idle", "done"}

\* sweeps that run alone: the updates and the clock move between two sweeps
NextSweep ==
    \/ NoSweepInFlight /\ \E u \in Upds, d \in Drivers, pos \in Positions : UpdateHset(u, d, pos)
    \/ NoSweepInFlight /\ \E u \in Upds : UpdateExpire(u)
    \/ NoSweepInFlight /\ \E u \in Upds : UpdateGeoadd(u)
    \/ NoSweepInFlight /\ TickGeo
    \/ NoUpdateInFlight /\ CleanupStart
    \/ CleanupExists
    \/ CleanupZrem

SpecSweep == InitGeo /\ [][NextSweep]_vars

\* the cache under all of its writers and readers at once
NextCache ==
    \/ NextGeo
    \/ CleanupStart
    \/ CleanupExists
    \/ CleanupZrem

SpecCache == InitGeo /\ [][NextCache]_vars

\* no find_nearest_driver is between its radius query and its return
NoFindInFlight == \A f \in Finds : fnd[f].pc \in {"idle", "done"}

\* find_nearest_driver on a cache at rest: a call starts when no update is
\* running, and from its radius query to its return no other command reaches
\* the cache and the clock stands still
NextFind ==
    \/ NoFindInFlight /\ \E u \in Upds, d \in Drivers, pos \in Positions : UpdateHset(u, d, pos)
    \/ NoFindInFlight /\ \E u \in Upds : UpdateExpire(u)
    \/ NoFindInFlight /\ \E u \in Upds : UpdateGeoadd(u)
    \/ NoFindInFlight /\ TickGeo
    \/ NoFindInFlight /\ CleanupStart
    \/ NoFindInFlight /\ CleanupExists
    \/ NoFindInFlight /\ CleanupZrem
    \/ NoUpdateInFlight
          /\ \E f \in Finds, pickup \in Pickups, max_km \in MaxKms : FindQuery(f, pickup, max_km)
    \/ \E f \in Finds : FindVerify(f)

SpecFind == InitGeo /\ [][NextFind]_vars

\* ------------------------------------ concurrent update_driver_location
\* POST /drivers/{id}/location from several requests at once: the calls of
\* update_driver_location interleave at each of their three commands
InitMove ==
    /\ rides = <<>>
    /\ assignments = [a \in AssignIds |-> NoRow]
    /\ trips = <<>>
    /\ payments = <<>>
    /\ idempotency_keys = [k \in Keys |-> NoRow]
    /\ \E g \in GeoStates :
          /\ driver_hash = [d \in Drivers |-> g[d].hash]
          /\ drivers_geo = [d \in Drivers |-> g[d].geo]
    /\ assignments_id_seq = 0
    /\ req = [r \in Reqs |-> IdleReq]
    /\ timers = [a \in AssignIds |-> "none"]
    /\ acc = [p \in Accs |-> IdleAcc]
    /\ now = 0
    /\ endp = [e \in Ends |-> IdleEnd]
    /\ settle = <<>>
    /\ pay = [g \in Pays |-> IdlePay]
    /\ fnd = [f \in Finds |-> IdleFnd]
    /\ upd = [u \in Moves |-> IdleUpd]
    /\ cln = IdleCln

NextMove ==
    \/ \E u \in Moves, d \in Drivers, pos \in MovePositions : UpdateHset(u, d, pos)
    \/ \E u \in Moves : UpdateExpire(u)
    \/ \E u \in Moves : UpdateGeoadd(u)

SpecMove == InitMove /\ [][NextMove]_vars

\* ================================================================= claims
TripsOf(a) ==
    {t \in DOMAIN trips : /\ trips[t].ride_id = assignments[a].ride_id
                          /\ trips[t].driver_id = assignments[a].driver_id}

\* C1: a terminal assignment status is final.  Whichever of accept_assignment
\* and the expiry worker comes second writes nothing: once an assignment has
\* left Offered (Accepted or Expired), no step changes its row again.
C1_TerminalStatusIsFinal ==
    [][\A a \in AssignIds :
          (assignments[a] # NoRow /\ assignments[a].status # ASSIGN_OFFERED)
              => assignments'[a] = assignments[a]]_vars

\* C2: every trip belongs to an assignment that is Accepted and to a ride
\* that is Assigned: no trip exists for a (ride_id, driver_id) whose
\* assignment is Expired or whose ride is back in Searching.
C2_TripOnlyFromAccepted ==
    \A a \in AssignIds :
        (assignments[a] # NoRow /\ TripsOf(a) # {})
            => /\ assignments[a].status = ASSIGN_ACCEPTED
               /\ rides[assignments[a].ride_id].status = RIDE_ASSIGNED

\* C3: every Accepted assignment has exactly one trip with its ride_id and
\* driver_id, also when its driver sends several accept requests at once.
C3_OneTripPerAccepted ==
    \A a \in AssignIds :
        (assignments[a] # NoRow /\ assignments[a].status = ASSIGN_ACCEPTED)
            => Cardinality(TripsOf(a)) = 1

\* Liveness form of the expiry of offers (checked under SpecLive): every
\* assignment that is Offered is eventually either accepted or Expired with
\* its ride Searching.
OfferEventuallyExpires ==
    \A a \in AssignIds :
        (assignments[a] # NoRow /\ assignments[a].status = ASSIGN_OFFERED)
            ~> (/\ assignments[a] # NoRow
                /\ \/ TripsOf(a) # {}
                   \/ /\ assignments[a].status = ASSIGN_EXPIRED
                      /\ rides[assignments[a].ride_id].status = RIDE_SEARCHING)

\* C4: an assignment that was created in Offered and not accepted is Expired,
\* and its ride Searching, once its expiry worker has slept and run.
C4_OfferExpiresOnceWorkerRan ==
    \A a \in AssignIds :
        (assignments[a] # NoRow /\ timers[a] = "done" /\ TripsOf(a) = {})
            => /\ assignments[a].status = ASSIGN_EXPIRED
               /\ rides[assignments[a].ride_id].status = RIDE_SEARCHING

AssignmentsOfRide(ride_id) ==
    {a \in AssignIds : assignments[a] # NoRow /\ assignments[a].ride_id = ride_id}

\* C5: a create_ride that returns without a matched driver has stored the
\* ride as NoDriver, answers NoDriver, and no assignment exists for the ride.
C5_UnmatchedRideIsNoDriver ==
    \A r \in Reqs :
        (req[r].pc = "done" /\ req[r].result = "200" /\ req[r].ride_id # 0
           /\ req[r].driver_id = NoDriver)
            => /\ rides[req[r].ride_id].status = RIDE_NO_DRIVER
               /\ req[r].response.status = RIDE_NO_DRIVER
               /\ AssignmentsOfRide(req[r].ride_id) = {}

\* C6: a create_ride that starts when a response is already stored under its
\* key returns exactly that response, whatever its body, and inserts no ride
\* and no assignment; a stored idempotency record is never changed.
C6_ReplayReturnsStoredResponse ==
    [][/\ \A r \in Reqs :
            (/\ req[r].pc = "idle" /\ req'[r].pc # "idle"
             /\ req'[r].key # NoKey /\ idempotency_keys[req'[r].key] # NoRow)
                => /\ req'[r].pc = "done" /\ req'[r].result = "200"
                   /\ req'[r].response = idempotency_keys[req'[r].key]
                   /\ UNCHANGED <<rides, assignments, assignments_id_seq, timers>>
       /\ \A k \in Keys :
            idempotency_keys[k] # NoRow => idempotency_keys'[k] = idempotency_keys[k]]_vars

\* a replay whose body differs from the body of the stored response
C6_Witness ==
    \E r \in Reqs :
        /\ req[r].pc = "done" /\ req[r].key # NoKey /\ req[r].ride_id = 0
        /\ req[r].response = idempotency_keys[req[r].key]
        /\ req[r].response.pickup # req[r].pickup
        /\ Len(rides) = 1

\* C7: of the create_ride requests that carry one key, exactly one creates a
\* ride; every one of them ends with the stored response, none with an error.
C7_OneWinnerPerKey ==
    \A k \in Keys :
        /\ Cardinality({r \in Reqs : req[r].key = k /\ req[r].ride_id # 0}) <= 1
        /\ \A r \in Reqs :
              (req[r].key = k /\ req[r].pc = "done")
                  => /\ req[r].result = "200"
                     /\ req[r].response = idempotency_keys[k]

\* C10: an accept of an Offered assignment by a driver other than the one it
\* was offered to is answered 400 and changes neither the assignment, nor the
\* rides, nor the trips.
C10_WrongDriverRejected ==
    [][\A p \in Accs :
          (/\ acc[p].pc = "idle" /\ acc'[p].pc # "idle"
           /\ assignments[acc'[p].assignment_id] # NoRow
           /\ assignments[acc'[p].assignment_id].status = ASSIGN_OFFERED
           /\ assignments[acc'[p].assignment_id].driver_id # acc'[p].driver_id)
              => /\ acc'[p].pc = "done" /\ acc'[p].result = "400"
                 /\ UNCHANGED <<assignments, rides, trips>>]_vars

\* driver B was answered 400 and the assignment is still offered to driver A
C10_Witness ==
    \E p \in Accs :
        /\ acc[p].pc = "done" /\ acc[p].result = "400"
        /\ assignments[acc[p].assignment_id] # NoRow
        /\ assignments[acc[p].assignment_id].status = ASSIGN_OFFERED
        /\ assignments[acc[p].assignment_id].driver_id # acc[p].driver_id

\* C8: every Completed trip has exactly one payment.
C8_OnePaymentPerCompletedTrip ==
    \A t \in DOMAIN trips :
        trips[t].status = TRIP_COMPLETED
            => Cardinality({pid \in DOMAIN payments : payments[pid].trip_id = t}) = 1

\* C9: end_trip on a trip that is not Ongoing is answered with an error and
\* changes neither the trip nor the payments.
C9_EndOfClosedTripRejected ==
    [][\A e \in Ends :
          (/\ endp[e].pc = "idle" /\ endp'[e].pc # "idle"
           /\ endp'[e].trip_id \in DOMAIN trips
           /\ trips[endp'[e].trip_id].status # TRIP_ONGOING)
              => /\ endp'[e].pc = "done" /\ endp'[e].result = "400"
                 /\ UNCHANGED <<trips, payments>>]_vars

\* C11: an accept by the driver an assignment was offered to, sent when the
\* assignment is no longer Offered (Expired or Accepted), is answered 400
\* (cannot accept) and changes neither the assignments, nor the rides, nor
\* the trips.
C11_NotOfferedRejected ==
    [][\A p \in Accs :
          (/\ acc[p].pc = "idle" /\ acc'[p].pc # "idle"
           /\ assignments[acc'[p].assignment_id] # NoRow
           /\ assignments[acc'[p].assignment_id].driver_id = acc'[p].driver_id
           /\ assignments[acc'[p].assignment_id].status # ASSIGN_OFFERED)
              => /\ acc'[p].pc = "done" /\ acc'[p].result = "400"
                 /\ UNCHANGED <<assignments, rides, trips>>]_vars

\* the owning driver was answered 400 on an assignment that had expired, and
\* no trip exists
C11_Witness ==
    \E p \in Accs :
        /\ acc[p].pc = "done" /\ acc[p].result = "400"
        /\ assignments[acc[p].assignment_id] # NoRow
        /\ assignments[acc[p].assignment_id].driver_id = acc[p].driver_id
        /\ assignments[acc[p].assignment_id].status = ASSIGN_EXPIRED
        /\ trips = <<>>

\* C12: an accept by the owning driver of an assignment that is Offered is
\* not rejected, and when it writes while the expiry has not fired (the row
\* is still Offered) it sets the assignment Accepted, inserts exactly one trip
\* with the assignment's ride_id and driver_id in Ongoing, returns that trip,
\* and the ride is Assigned.
C12_AcceptOfOfferedSucceeds ==
    [][\A p \in Accs :
          /\ (/\ acc[p].pc = "idle" /\ acc'[p].pc # "idle"
              /\ assignments[acc'[p].assignment_id] # NoRow
              /\ assignments[acc'[p].assignment_id].driver_id = acc'[p].driver_id
              /\ assignments[acc'[p].assignment_id].status = ASSIGN_OFFERED)
                 => acc'[p].pc = "update"
          /\ (/\ acc[p].pc = "update" /\ acc'[p].pc # "update"
              /\ assignments[acc[p].assignment_id].status = ASSIGN_OFFERED)
                 => LET a == acc[p].assignment_id
                    IN  /\ assignments'[a].status = ASSIGN_ACCEPTED
                        /\ Len(trips') = Len(trips) + 1
                        /\ \A t \in DOMAIN trips : trips'[t] = trips[t]
                        /\ trips'[Len(trips')].ride_id = assignments[a].ride_id
                        /\ trips'[Len(trips')].driver_id = assignments[a].driver_id
                        /\ trips'[Len(trips')].status = TRIP_ONGOING
                        /\ acc'[p].pc = "done" /\ acc'[p].result = "200"
                        /\ acc'[p].trip_id = Len(trips')
                        /\ rides'[assignments[a].ride_id].status = RIDE_ASSIGNED]_vars

\* the accept was answered with its trip: the assignment is Accepted, the
\* ride Assigned and the trip the only one
C12_Witness ==
    \E p \in Accs :
        /\ acc[p].pc = "done" /\ acc[p].result = "200"
        /\ assignments[acc[p].assignment_id].status = ASSIGN_ACCEPTED
        /\ rides[acc[p].ride_id].status = RIDE_ASSIGNED
        /\ Len(trips) = 1 /\ acc[p].trip_id = 1
        /\ trips[1].status = TRIP_ONGOING

OfferedOfRide(ride_id) ==
    {a \in AssignmentsOfRide(ride_id) : assignments[a].status = ASSIGN_OFFERED}

OfferedOfDriver(d) ==
    {a \in AssignIds : /\ assignments[a] # NoRow
                       /\ assignments[a].driver_id = d
                       /\ assignments[a].status = ASSIGN_OFFERED}

\* C13: the creation of an offer is atomic: every assignment that is Offered
\* belongs to a ride that is Assigned, and a create_ride answers Assigned only
\* if an assignment of the ride was stored.
C13_OfferIsAtomic ==
    /\ \A a \in AssignIds :
          (assignments[a] # NoRow /\ assignments[a].status = ASSIGN_OFFERED)
              => rides[assignments[a].ride_id].status = RIDE_ASSIGNED
    /\ \A r \in Reqs :
          (req[r].pc = "done" /\ req[r].result = "200"
             /\ req[r].response.status = RIDE_ASSIGNED)
              => AssignmentsOfRide(req[r].response.id) # {}

\* C14: every ride has at most one assignment that is Offered.
C14_OneOfferPerRide ==
    \A ride_id \in DOMAIN rides : Cardinality(OfferedOfRide(ride_id)) <= 1

\* two rides were created and each has its own offer outstanding
C14_Witness ==
    /\ Len(rides) = 2
    /\ \A ride_id \in DOMAIN rides : Cardinality(OfferedOfRide(ride_id)) = 1

\* C15: every driver has at most one assignment that is Offered: a driver
\* with an outstanding offer is not offered another ride.
C15_OneOfferPerDriver ==
    \A d \in Drivers : Cardinality(OfferedOfDriver(d)) <= 1

\* C17: when the write of create_assignment raises after a driver was found,
\* the ride is stored as NoDriver, no assignment of the ride exists and no
\* expiry worker is pending.
C17_FailedOfferLeavesNoDriver ==
    \A r \in Reqs :
        (req[r].pc = "done" /\ req[r].driver_id # NoDriver /\ req[r].assign_id = 0)
            => /\ rides[req[r].ride_id].status = RIDE_NO_DRIVER
               /\ AssignmentsOfRide(req[r].ride_id) = {}
               /\ \A a \in AssignIds :
                      timers[a] # "none" => \E q \in Reqs \ {r} : req[q].assign_id = a

\* C18: when the geo index or the call of the discovery service fails during
\* create_ride, the request is still answered 200, the ride is stored and
\* answered as NoDriver, and no assignment of the ride exists.
C18_FailedMatchIsNoDriver ==
    \A r \in Reqs :
        (req[r].pc = "done" /\ req[r].failed)
            => /\ req[r].result = "200"
               /\ rides[req[r].ride_id].status = RIDE_NO_DRIVER
               /\ req[r].response.status = RIDE_NO_DRIVER
               /\ AssignmentsOfRide(req[r].ride_id) = {}

\* C19: a terminal payment status is absorbing: a payment that is Success or
\* Failed keeps its status whatever settlement runs later; the status of a
\* payment changes only from Pending to Success or Failed.
C19_TerminalPaymentIsFinal ==
    [][\A pid \in DOMAIN payments :
          /\ payments[pid].status \in {PAY_SUCCESS, PAY_FAILED}
                => payments'[pid].status = payments[pid].status
          /\ payments'[pid].status # payments[pid].status
                => /\ payments[pid].status = PAY_PENDING
                   /\ payments'[pid].status \in {PAY_SUCCESS, PAY_FAILED}]_vars

\* POST /payments read the payment Pending and scheduled a second settlement;
\* both settlements have run and the payment is Success
C19_Witness ==
    \E g \in Pays :
        /\ pay[g].pc = "done" /\ pay[g].result = "200"
        /\ pay[g].payment_status = PAY_PENDING
        /\ payments[pay[g].payment_id].status = PAY_SUCCESS
        /\ settle[pay[g].payment_id] = 0

C16_ReturnedDriverIsFreshAndNear ==
    [][\A f \in Finds :
          /\ (fnd[f].pc = "verify" /\ fnd'[f] # fnd[f])
                => LET did == fnd[f].res[fnd[f].i]
                       good == /\ driver_hash[did] # NoRow
                               /\ (driver_hash[did].expire_at = NoTime
                                     \/ now < driver_hash[did].expire_at)
                               /\ now - driver_hash[did].timestamp <= max_age_sec
                               /\ Abs(fnd[f].pickup - driver_hash[did].pos) <= fnd[f].max_km
                   IN  /\ fnd'[f].result # NoDriver => (fnd'[f].result = did /\ good)
                       /\ ~good => /\ fnd'[f].result = NoDriver
                                   /\ \/ fnd'[f].pc = "done" /\ fnd[f].i = Len(fnd[f].res)
                                      \/ fnd'[f].pc = "verify" /\ fnd'[f].i = fnd[f].i + 1
          /\ (fnd[f].pc = "idle" /\ fnd'[f].pc = "done") => fnd'[f].result = NoDriver]_vars

\* the nearest entry of the index was skipped because its hash was older than
\* max_age_sec (and was removed), and the next entry was returned
C16_Witness ==
    \E f \in Finds :
        /\ fnd[f].pc = "done" /\ fnd[f].i = 2 /\ fnd[f].result = 2
        /\ driver_hash[1] = NoRow /\ drivers_geo[1] = NoRow
        /\ HashLive(2) /\ ~HashStale(2)
        /\ now > max_age_sec

\* C21: the expiry timer of an offer is created only after the transaction
\* that created the offer has committed: every timer belongs to a committed
\* assignment, and every committed assignment that is Offered has a timer
\* that has not run yet.
C21_TimerOnlyAfterCommit ==
    \A a \in AssignIds :
        /\ timers[a] # "none" => assignments[a] # NoRow
        /\ (assignments[a] # NoRow /\ assignments[a].status = ASSIGN_OFFERED)
              => timers[a] \in {"sleeping", "update"}

\* C29: the expiry is idempotent: a run of the expiry worker that finds its
\* assignment already Accepted or Expired ends without changing the
\* assignments, the rides or the trips, however many times the worker runs.
C29_ExpireOfTerminalIsNoOp ==
    [][\A a \in AssignIds :
          (/\ timers[a] = "sleeping" /\ timers'[a] # "sleeping"
           /\ assignments[a] # NoRow
           /\ assignments[a].status \in {ASSIGN_ACCEPTED, ASSIGN_EXPIRED})
              => /\ timers'[a] = "done"
                 /\ UNCHANGED <<assignments, rides, trips>>]_vars

\* the worker has run and ended on an assignment that a driver had accepted:
\* the assignment is Accepted, its ride still Assigned, its trip the only one
C29_Witness ==
    \E a \in AssignIds :
        /\ timers[a] = "done"
        /\ assignments[a] # NoRow /\ assignments[a].status = ASSIGN_ACCEPTED
        /\ rides[assignments[a].ride_id].status = RIDE_ASSIGNED
        /\ Len(trips) = 1

\* C30: a ride is offered at most once: no ride ever has more than one
\* assignment, and once the assignment of a ride is Expired and the ride
\* Searching, both stay so for ever.
C30_RideOfferedOnce ==
    [][\A a \in AssignIds :
          /\ assignments[a] # NoRow
                => Cardinality(AssignmentsOfRide(assignments[a].ride_id)) = 1
          /\ (/\ assignments[a] # NoRow
              /\ assignments[a].status = ASSIGN_EXPIRED
              /\ rides[assignments[a].ride_id].status = RIDE_SEARCHING)
                => /\ assignments'[a] = assignments[a]
                   /\ rides'[assignments[a].ride_id].status = RIDE_SEARCHING]_vars

\* C27: closing a trip is atomic and consistent: every payment refers to a
\* trip that is Completed and its amount is the fare stored on that trip, and
\* a payment is Pending when it is inserted.
C27_PaymentMatchesCompletedTrip ==
    [][/\ \A pid \in DOMAIN payments' :
             /\ trips'[payments'[pid].trip_id].status = TRIP_COMPLETED
             /\ payments'[pid].amount = trips'[payments'[pid].trip_id].fare
             /\ pid \notin DOMAIN payments => payments'[pid].status = PAY_PENDING]_vars

\* C28: every payment end_trip creates eventually becomes Success with the
\* simulated answer of the provider, and end_trip answers 200 as soon as the
\* payment is inserted, while the payment is still Pending.
C28_PaymentEventuallySettles ==
    /\ \A pid \in 1..MaxEnd :
          (pid \in DOMAIN payments)
              ~> (/\ pid \in DOMAIN payments
                  /\ payments[pid].status = PAY_SUCCESS
                  /\ payments[pid].provider_response = "simulated")
    /\ [][\A e \in Ends :
             (endp[e].pc = "update" /\ endp'[e].pc # "update")
                => /\ endp'[e].pc = "done" /\ endp'[e].result = "200"
                   /\ Len(payments') = Len(payments) + 1
                   /\ payments'[Len(payments')].status = PAY_PENDING]_vars

\* end_trip has answered and its payment is still Pending, its settlement
\* task not yet run
C28_Witness ==
    \E e \in Ends :
        /\ endp[e].pc = "done" /\ endp[e].result = "200"
        /\ Len(payments) = 1 /\ payments[1].trip_id = endp[e].trip_id
        /\ payments[1].status = PAY_PENDING /\ settle[1] = 1

\* the position recorded for driver d exists and is at most max_age_sec old
FreshRecord(d) == HashLive(d) /\ ~HashStale(d)

\* C24: when a sweep that ran alone (no update of a position during it) ends,
\* every driver still in the index has a position record at most max_age_sec
\* old, and the sweep removes no driver whose position record is fresh.
C24_SweepLeavesOnlyFresh ==
    [][/\ (cln.pc \notin {"idle", "done"} /\ cln'.pc = "done")
             => \A d \in Drivers : drivers_geo'[d] # NoRow => FreshRecord(d)
       /\ \A d \in Drivers :
             (cln.pc = "zrem" /\ drivers_geo[d] # NoRow /\ drivers_geo'[d] = NoRow)
                => ~FreshRecord(d)]_vars

\* an update_driver_location of driver d is between its HSET and its GEOADD
UpdateInFlight(d) ==
    \E u \in DOMAIN upd : upd[u].pc \in {"expire", "geoadd"} /\ upd[u].driver_id = d

\* the drivers find_nearest_driver may return to call f: those whose position
\* record is fresh and within max_km of the pickup
FreshWithin(f) ==
    {d \in Drivers : /\ FreshRecord(d)
                     /\ haversine_km(fnd[f].pickup, driver_hash[d].pos) <= fnd[f].max_km}

\* C22: when find_nearest_driver ends its loop over the entries of the radius
\* query and some driver has a fresh position within max_km of the pickup, it
\* returns such a driver at the least distance by the position record, and of
\* the drivers at that distance the one with the smallest id.
C22_ReturnsNearestByRecord ==
    [][\A f \in Finds :
          (fnd[f].pc = "verify" /\ fnd'[f].pc = "done" /\ FreshWithin(f) # {})
             => /\ fnd'[f].result \in FreshWithin(f)
                /\ \A e \in FreshWithin(f) :
                      LET dr == haversine_km(fnd[f].pickup, driver_hash[fnd'[f].result].pos)
                          de == haversine_km(fnd[f].pickup, driver_hash[e].pos)
                      IN  dr < de \/ (dr = de /\ fnd'[f].result <= e)]_vars

\* C23: get_driver_location, called by find_nearest_driver on an entry of the
\* radius query, gives a position exactly when the driver's position record
\* exists and is at most max_age_sec old; when it gives none for an entry
\* whose record is too old or has expired, the driver is then in neither the
\* position record nor the index.
C23_StaleEntryIsRemoved ==
    [][\A f \in Finds :
          (fnd[f].pc = "verify" /\ fnd'[f] # fnd[f])
             => LET did == fnd[f].res[fnd[f].i]
                IN  /\ fnd'[f].result = did => FreshRecord(did)
                    /\ ~FreshRecord(did)
                          => /\ drivers_geo'[did] = NoRow
                             /\ driver_hash'[did] = NoRow \/ ~HashLive(did)]_vars

\* C25: a driver whose position record is fresh, and none of whose updates
\* is still running, is never removed from the index: a sweep or an eviction
\* that saw the record missing or stale before an update does not remove
\* the entry that update wrote.
C25_FreshEntryIsNotRemoved ==
    [][\A d \in Drivers :
          (/\ drivers_geo[d] # NoRow /\ drivers_geo'[d] = NoRow
           /\ ~UpdateInFlight(d))
             => ~FreshRecord(d)]_vars

\* C26: once every update_driver_location has returned, the position in a
\* driver's position record and its position in the index are the same.
C26_OnePositionPerDriver ==
    NoUpdateInFlight
       => \A d \in Drivers :
             (HashLive(d) /\ drivers_geo[d] # NoRow)
                => drivers_geo[d].pos = driver_hash[d].pos

====
